---- MODULE Spec2Model ----
(***************************************************************************)
(* A model of the broker's connection (broker.Conn): creation, subscribe,  *)
(* unsubscribe, publish fan-out and close, together with the collaborators *)
(* the connection calls: the per-connection subscription stats, the        *)
(* subscription store, the connection cache, the cluster plane and the     *)
(* service meters.                                                         *)
(***************************************************************************)
EXTENDS Integers, Sequences, FiniteSets, TLC

\* ------------------------------------------------------------------ bounds
MaxConns == 2
MaxSubIDs == 2
MaxRef == 2
MaxPublish == 1
MaxCloseCalls == 2
MaxQos == 1
OrderSubIDs == 1
OrderPublish == 2
StepsSubIDs == 2
StepsPublish == 1
FaultySubIDs == 1
FaultyPublish == 1

TeardownSubIDs == 1

\* ------------------------------------------------------------- input sets
Conns == 1..MaxConns
Keys == {"k1", "k2"}
Contracts == {"own", "peer"}
BareTopics == {<<"a">>, <<"b">>}
OptionSuffixes == {<<>>, <<"?", "o">>}
PayloadOf(n) == << "p", n >>
QosLevels == 0..MaxQos
PublishIDs == {0, 7}

Word16 == 65536

\* security.Topic as handed to subscribe/unsubscribe/publish: Key, the topic
\* text with its options, and Size, the length of the topic without options.
ParsedTopics ==
    { [Key |-> k, Topic |-> b \o o, Size |-> Len(b)] :
        k \in Keys, b \in BareTopics, o \in OptionSuffixes }

\* topic.Topic[:topic.Size]
TopicSlice(topic) == SubSeq(topic.Topic, 1, topic.Size)

\* ------------------------------------------------------------ subscription stats
NoStat == [ID |-> 0, Topic |-> <<>>, Counter |-> 0]

NewStats == [k \in Keys |-> NoStat]

StatsExist(s, key) == s[key].Counter > 0

\* Increment: the stat is created by the first increment and keeps the id
\* and topic of that increment.
StatsIncrement(s, topic, key, id) ==
    [s EXCEPT ![key] =
        IF @.Counter = 0
        THEN [ID |-> id, Topic |-> topic, Counter |-> 1]
        ELSE [@ EXCEPT !.Counter = @ + 1]]

StatsIncrementFirst(s, key) == s[key].Counter = 0

\* Decrement: refcount 0 deletes the stat; a key that is absent stays absent.
StatsDecrement(s, key) ==
    [s EXCEPT ![key] = IF @.Counter <= 1 THEN NoStat ELSE [@ EXCEPT !.Counter = @ - 1]]

StatsDecrementLast(s, key) == s[key].Counter = 1

StatsDecrementID(s, key) == s[key].ID

StatsAll(s) == { s[k] : k \in { x \in Keys : s[x].Counter > 0 } }

\* ------------------------------------------------------------ cluster plane
isRemoteContract(contract) == contract = "peer"

\* ------------------------------------------------------------ subscription store
\* binary.LittleEndian.PutUint32 / Uint32
PutUint32(v) ==
    << v % 256, (v \div 256) % 256, (v \div 65536) % 256, (v \div 16777216) % 256 >>

Uint32(b) == b[1] + 256 * b[2] + 65536 * b[3] + 16777216 * b[4]

\* The store files a subscription under the topic without its options.
StoreTopic(text) ==
    LET cut == { i \in 1..Len(text) : text[i] = "?" }
    IN  IF cut = {} THEN text
        ELSE SubSeq(text, 1, (CHOOSE i \in cut : \A j \in cut : i <= j) - 1)

\* by records the key the writer subscribed with: bookkeeping of the model,
\* the store itself does not keep it.
StorePut(st, contract, id, topic, payload, by) ==
    st \cup { [contract |-> contract, id |-> id, topic |-> StoreTopic(topic),
               payload |-> payload, by |-> by] }

StoreGet(st, contract, topic) ==
    { r \in st : r.contract = contract /\ r.topic = StoreTopic(topic) }

\* Ids come from NewID and are unique: the record carrying the id goes.
StoreDelete(st, contract, id, topic) ==
    { r \in st : ~(r.contract = contract /\ r.id = id) }

\* ------------------------------------------------------------------ state
VARIABLES
    conn,        \* connid -> [st, contract, clnode]: the Conn objects
    subs,        \* connid -> c.subs
    cache,       \* Globals.ConnCache: the connids it holds
    store,       \* store.Subscription: the records
    nextSubID,   \* the id store.Subscription.NewID returns next
    nextMid,     \* connid -> the id c.MessageIds.NextID returns next
    meter,       \* service.meter: Connections, Subscriptions, InMsgs, OutMsgs
    inbox,       \* connid -> the packets received from c.pub (an observer)
    closing,     \* connid -> [panicked, socketCloses]: what the close calls did
    faulty,      \* whether store and cluster calls may return errors
    budget,      \* [ids, pubs, keys]: the NewID and publish calls a behaviour may
                 \* make and the keys its requests may carry
    watch,       \* which observers are kept: "inbox", "forwarding", "fanout",
                 \* "unsub", "pending", "closing", "drops"
    pending,     \* connid -> key -> subscribes not yet matched by an unsubscribe
    subsBy,      \* connid -> what the connection added to meter.Subscriptions
    lastUnsub,   \* [c, topic] of the latest unsubscribe of a held key that
                 \* returned nil, until c subscribes to the topic again
    seen,        \* what the calls so far did with the forwarded flag
    afterUnsub,  \* what the publishes after an unsubscribe of their topic did
    lastPub,     \* what the latest publish call did
    fanout,      \* the publish call whose loop over conns is under way
    stalled,     \* the connections whose writer never takes a packet from c.pub
    dropped,     \* [to, Qos] of the sends that timed out and were not offered again
    calc,        \* the function under evaluation: its stage, input and results
    session      \* connid -> closeC, closeW, the socket, and how far the close call
                 \* and the SendRawBytes call under way have come

vars ==
    << conn, subs, cache, store, nextSubID, nextMid, meter, inbox, closing,
       faulty, budget, watch, pending, subsBy, lastUnsub, seen, afterUnsub, lastPub,
       fanout, stalled, dropped, calc, session >>

\* replayed: a request with the forwarded flag reached a connection whose
\* contract a peer owns; forwarded / reforwarded: a request without / with the
\* flag was handed to routeToContract; subscribeKept: a subscribe without the
\* flag on a connection whose contract a peer owns returned without a call of
\* routeToContract.
NothingSeen ==
    [replayed |-> FALSE, forwarded |-> FALSE, reforwarded |-> FALSE,
     subscribeKept |-> FALSE]

See(isForwarded, contract, routed) ==
    [replayed |-> seen.replayed \/ (isForwarded /\ isRemoteContract(contract)),
     forwarded |-> seen.forwarded \/ (routed /\ ~isForwarded),
     reforwarded |-> seen.reforwarded \/ (routed /\ isForwarded),
     subscribeKept |-> seen.subscribeKept]

\* failed: the calls of the publish that returned an error, "store" for
\* Subscription.Get and "cluster" for routeToContract.
NoPublish ==
    [c |-> 0, topic |-> <<>>, out |-> 0, targets |-> {}, err |-> "nil", failed |-> {}]

Failed(getOk, forwards, routeOk) ==
    (IF getOk THEN {} ELSE {"store"}) \cup (IF forwards /\ ~routeOk THEN {"cluster"} ELSE {})

\* What the publishes of a topic did that came after a completed unsubscribe
\* of that topic. silent: one left the unsubscribed connection out;
\* delivered: one called SendMessage on it; deliveredGone: one called
\* SendMessage on it although it held no stat for the topic any more.
NoneAfterUnsub == [silent |-> FALSE, delivered |-> FALSE, deliveredGone |-> FALSE]

\* The variables of the broker.
brokerVars ==
    << conn, subs, cache, store, nextSubID, nextMid, meter, inbox, closing,
       faulty, budget, watch, pending, subsBy, lastUnsub, seen, afterUnsub, lastPub,
       fanout, stalled, dropped, session >>

NoUnsub == [c |-> 0, topic |-> <<>>]

\* No publish call is inside its loop.
NoFanOut == [c |-> 0]

\* The dispatcher of the connection is inside publish.
Busy(c) == fanout.c = c

\* closeC made and open, no SendRawBytes counted by closeW, the socket open, no
\* step of close done, no SendRawBytes call under way, no write to a closed
\* socket seen.
NewSession ==
    [closeC |-> "open", closeW |-> 0, socket |-> "open", done |-> <<>>, sender |-> "idle",
     lateWrite |-> FALSE]

NoConn == [st |-> "none", contract |-> "own", clnode |-> FALSE]

InitCommon ==
    /\ conn = [c \in Conns |-> NoConn]
    /\ subs = [c \in Conns |-> NewStats]
    /\ cache = {}
    /\ store = {}
    /\ nextSubID = 1
    /\ nextMid = [c \in Conns |-> 1]
    /\ meter = [Connections |-> 0, Subscriptions |-> 0, InMsgs |-> 0, OutMsgs |-> 0]
    /\ inbox = [c \in Conns |-> <<>>]
    /\ closing = [c \in Conns |-> [panicked |-> FALSE, socketCloses |-> 0]]
    /\ pending = [c \in Conns |-> [k \in Keys |-> 0]]
    /\ subsBy = [c \in Conns |-> 0]
    /\ lastUnsub = NoUnsub
    /\ seen = NothingSeen
    /\ afterUnsub = NoneAfterUnsub
    /\ lastPub = NoPublish
    /\ fanout = NoFanOut
    /\ dropped = {}
    /\ session = [c \in Conns |-> NewSession]

\* No function is under evaluation.
NoCalc == [stage |-> "none"]

InitWith(observers, ids, pubs) ==
    /\ InitCommon
    /\ calc = NoCalc
    /\ faulty = FALSE
    /\ budget = [ids |-> ids, pubs |-> pubs, keys |-> Keys]
    /\ watch = observers
    /\ stalled = {}

Init == InitWith({}, MaxSubIDs, MaxPublish)

\* An observer holds its new value in the specifications that keep it.
Observe(name, new, old) == IF name \in watch THEN new ELSE old

\* The outcomes a store or cluster call can have.
CallOutcomes == IF faulty THEN {TRUE, FALSE} ELSE {TRUE}

Contract(c) == conn[c].contract

IsOpen(c) == conn[c].st = "open"

\* ------------------------------------------------------------ newConn / newRpcConn
ConnCacheAdd(ch, c) == ch \cup {c}

ConnCacheDelete(ch, c) == ch \ {c}

ConnCacheGet(ch, c) == c \in ch

\* uid.NewLID hands out the connids in increasing order; the connid a peer
\* supplies to newRpcConn is taken from the same sequence here.
NewLID(c) == conn[c].st = "none" /\ \A d \in Conns : d < c => conn[d].st # "none"

newConn(c, contract) ==
    /\ NewLID(c)
    /\ conn' = [conn EXCEPT ![c] = [st |-> "open", contract |-> contract, clnode |-> FALSE]]
    /\ meter' = [meter EXCEPT !.Connections = @ + 1]
    /\ cache' = ConnCacheAdd(cache, c)
    /\ UNCHANGED << subs, store, nextSubID, nextMid, inbox, closing, faulty,
                    budget, watch, pending, subsBy, lastUnsub, seen, afterUnsub, lastPub >>
    /\ UNCHANGED << fanout, stalled, dropped, calc, session >>

newRpcConn(c, contract) ==
    /\ NewLID(c)
    /\ conn' = [conn EXCEPT ![c] = [st |-> "open", contract |-> contract, clnode |-> TRUE]]
    /\ cache' = ConnCacheAdd(cache, c)
    /\ UNCHANGED << subs, store, nextSubID, nextMid, meter, inbox, closing, faulty,
                    budget, watch, pending, subsBy, lastUnsub, seen, afterUnsub, lastPub >>
    /\ UNCHANGED << fanout, stalled, dropped, calc, session >>

\* ------------------------------------------------------------ subscribe
\* The condition under which subscribe hands the request to the owner node.
SubscribeForwards(exists, isForwarded, contract) ==
    exists /\ ~isForwarded /\ isRemoteContract(contract)

\* A subscribe that writes a record on every increment.
PutsOnEveryIncrement(first) == TRUE

\* Whether the increment that was the first one writes the store record.
SubscribePuts(first) == first

\* payload[0] = msg.Qos; payload[1:5] = connid, little endian
SubscriptionPayload(qos, c) == << qos >> \o PutUint32(c)

subscribe(c, isForwarded, qos, topic, putOk, routeOk) ==
    LET key == topic.Key
        contract == Contract(c)
        forwards == SubscribeForwards(StatsExist(subs[c], key), isForwarded, contract)
        first == StatsIncrementFirst(subs[c], key)
        puts == ~forwards /\ SubscribePuts(first)
        err == IF forwards THEN (IF routeOk THEN "nil" ELSE "clusterError")
               ELSE IF puts /\ ~putOk THEN "storeError" ELSE "nil"
    IN  /\ IsOpen(c) /\ ~Busy(c)
        /\ pending[c][key] < MaxRef
        /\ forwards \/ nextSubID <= budget.ids
        /\ IF forwards
           THEN UNCHANGED << subs, store, nextSubID, meter, subsBy >>
           ELSE /\ nextSubID' = nextSubID + 1
                /\ subs' = [subs EXCEPT ![c] =
                              StatsIncrement(@, TopicSlice(topic), key, nextSubID)]
                /\ IF puts /\ putOk
                   THEN /\ store' = StorePut(store, contract, nextSubID, topic.Topic,
                                             SubscriptionPayload(qos, c), key)
                        /\ meter' = [meter EXCEPT !.Subscriptions = @ + 1]
                        /\ subsBy' = [subsBy EXCEPT ![c] = @ + 1]
                   ELSE UNCHANGED << store, meter, subsBy >>
        /\ pending' = Observe("pending", [pending EXCEPT ![c][key] = @ + 1], pending)
        /\ lastUnsub' = IF lastUnsub = [c |-> c, topic |-> StoreTopic(topic.Topic)]
                        THEN NoUnsub ELSE lastUnsub
        /\ seen' = Observe("forwarding",
                           [See(isForwarded, contract, forwards) EXCEPT
                              !.subscribeKept =
                                  @ \/ (~isForwarded /\ isRemoteContract(contract) /\ ~forwards)],
                           seen)
        /\ UNCHANGED << conn, cache, nextMid, inbox, closing, faulty, budget, watch,
                        afterUnsub, lastPub >>
        /\ UNCHANGED << fanout, stalled, dropped, calc, session >>

\* ------------------------------------------------------------ unsubscribe
\* A handler that does not read the forwarded flag.
ForwardsWhateverTheFlag(isForwarded, contract) == isRemoteContract(contract)

\* The condition under which unsubscribe and publish hand the request to the
\* owner node.
Forwards(isForwarded, contract) == ~isForwarded /\ isRemoteContract(contract)

\* An unsubscribe that leaves the record in the store.
DeletesNothing(lastOne) == FALSE

\* Whether the decrement that was the last one deletes the store record.
UnsubscribeDeletes(lastOne) == lastOne

unsubscribe(c, isForwarded, topic, delOk, routeOk) ==
    LET key == topic.Key
        contract == Contract(c)
        lastOne == StatsDecrementLast(subs[c], key)
        messageId == StatsDecrementID(subs[c], key)
        dels == UnsubscribeDeletes(lastOne)
        delFails == dels /\ ~delOk
        forwards == ~delFails /\ Forwards(isForwarded, contract)
        err == IF delFails THEN "storeError"
               ELSE IF forwards /\ ~routeOk THEN "clusterError" ELSE "nil"
    IN  /\ IsOpen(c) /\ ~Busy(c)
        /\ subs' = [subs EXCEPT ![c] = StatsDecrement(@, key)]
        /\ IF dels /\ delOk
           THEN /\ store' = StoreDelete(store, contract, messageId, TopicSlice(topic))
                /\ meter' = [meter EXCEPT !.Subscriptions = @ - 1]
                /\ subsBy' = [subsBy EXCEPT ![c] = @ - 1]
           ELSE UNCHANGED << store, meter, subsBy >>
        /\ pending' = Observe("pending", [pending EXCEPT ![c][key] = IF @ > 0 THEN @ - 1 ELSE 0],
                               pending)
        /\ lastUnsub' = IF err = "nil" /\ StatsExist(subs[c], key)
                        THEN Observe("unsub", [c |-> c, topic |-> StoreTopic(topic.Topic)],
                                     lastUnsub)
                        ELSE lastUnsub
        /\ seen' = Observe("forwarding", See(isForwarded, contract, forwards), seen)
        /\ UNCHANGED << conn, cache, nextSubID, nextMid, inbox, closing, faulty, budget,
                        watch, afterUnsub, lastPub >>
        /\ UNCHANGED << fanout, stalled, dropped, calc, session >>

Subscribe ==
    \E c \in Conns, f \in BOOLEAN, q \in QosLevels,
       t \in { x \in ParsedTopics : x.Key \in budget.keys } :
        \E putOk \in CallOutcomes, routeOk \in CallOutcomes :
            subscribe(c, f, q, t, putOk, routeOk)

Unsubscribe ==
    \E c \in Conns, f \in BOOLEAN, t \in { x \in ParsedTopics : x.Key \in budget.keys } :
        \E delOk \in CallOutcomes, routeOk \in CallOutcomes :
            unsubscribe(c, f, t, delOk, routeOk)

NewConn == \E c \in Conns, ct \in Contracts : newConn(c, ct)

\* A peer replays a session's requests on the node that owns the contract.
NewRpcConn == \E c \in Conns, ct \in { x \in Contracts : ~isRemoteContract(x) } : newRpcConn(c, ct)


\* ------------------------------------------------------------ publish
\* Whether the connection holds a stat for the topic.
HoldsTopic(c, topic) ==
    \E k \in Keys : StatsExist(subs[c], k) /\ subs[c][k].Topic = topic

AfterUnsub(topic, targets) ==
    IF lastUnsub.c # 0 /\ lastUnsub.topic = topic
    THEN [silent |-> afterUnsub.silent \/ lastUnsub.c \notin targets,
          delivered |-> afterUnsub.delivered \/ lastUnsub.c \in targets,
          deliveredGone |-> afterUnsub.deliveredGone
                            \/ (lastUnsub.c \in targets /\ ~HoldsTopic(lastUnsub.c, topic))]
    ELSE afterUnsub

\* c.MessageIds.NextID: the next unused id of the connection's table.
NextID(mids, c) == mids[c]

\* A 32-bit word as its two 16-bit halves; Wide is the uint32 of a number
\* below 2^31.
Wide(n) == [hi |-> (n \div Word16) % Word16, lo |-> n % Word16]

\* A subtraction that stops at zero.
SubSaturating(a, b) ==
    IF a.hi < b.hi \/ (a.hi = b.hi /\ a.lo < b.lo) THEN Wide(0)
    ELSE [hi |-> (a.hi - b.hi - (IF a.lo < b.lo THEN 1 ELSE 0)) % Word16,
          lo |-> (a.lo - b.lo) % Word16]

\* The uint32 subtraction: the difference modulo 2^32, the borrow of the low
\* half taken from the high half.
Sub32(a, b) ==
    [hi |-> (a.hi - b.hi - (IF a.lo < b.lo THEN 1 ELSE 0)) % Word16,
     lo |-> (a.lo - b.lo) % Word16]

\* message.MID(uint32(c.connid) - uint32(id))
inboundID(connid, id) == Sub32(connid, Wide(id))

\* uint16(uint32(c.connid) - uint32(mid)): the low 16 bits of the 32-bit
\* difference.
outboundID(connid, mid) == Sub32(connid, mid).lo

\* uint64(c.inboundID(id))<<32 + uint64(contract): a 64-bit key as its two
\* 32-bit words.
storeInbound(connid, id, contract) == [hi |-> inboundID(connid, id), lo |-> contract]

\* m := &message.Message{MessageID, Topic: topic.Topic[:topic.Size], Payload}
NewMessage(messageID, topic, payload) ==
    [MessageID |-> messageID, Topic |-> TopicSlice(topic), Payload |-> payload, Qos |-> 0]

\* Whether publish mints an id before it hands m to a subscriber.
Mints(m) == m.Qos # 0 /\ m.MessageID = 0

\* SendMessage builds the packet from m; from, seq and id name the publish
\* call it comes from and the message id that call was given (bookkeeping of
\* the model).
PublishPacket(m, from, seq, id) ==
    [Qos |-> m.Qos, MessageID |-> m.MessageID, Topic |-> m.Topic,
     Payload |-> m.Payload, from |-> from, seq |-> seq, id |-> id]

\* A channel that hands the newest packet over first.
DeliverNewestFirst(queue, pkt) == << pkt >> \o queue

\* c.pub <- &msg: the receiver takes the packets in the order they are sent.
Deliver(queue, pkt) == Append(queue, pkt)

\* A count of the sends that did not time out.
CountedWhenSent(scount, sent) == IF sent THEN scount + 1 ELSE scount

\* scount++ for every subscriber found in the cache, sent or timed out.
Counted(scount, sent) == scount + 1

\* The orders in which store.Subscription.Get may list the records.
RECURSIVE Orderings(_)
Orderings(S) ==
    IF S = {} THEN { <<>> }
    ELSE UNION { { <<r>> \o o : o \in Orderings(S \ {r}) } : r \in S }

\* The loop over conns. st carries m.MessageID, the publisher's id table,
\* the inboxes, scount, the subscribers SendMessage was called on and the
\* sends that timed out: publish logs a timed-out send and goes on.
RECURSIVE FanOut(_, _, _, _, _, _)
FanOut(c, m, seq, order, sendOk, st) ==
    IF order = <<>> THEN st
    ELSE
        LET r == Head(order)
            lid == Uint32(SubSeq(r.payload, 2, 5))
            m1 == [m EXCEPT !.Qos = r.payload[1], !.MessageID = st.mid]
            minted == ConnCacheGet(cache, lid) /\ Mints(m1)
            m2 == IF minted
                  THEN [m1 EXCEPT !.MessageID = outboundID(Wide(c), Wide(NextID(st.mids, c)))]
                  ELSE m1
            sent == r.id \in sendOk
            st2 == IF ~ConnCacheGet(cache, lid) THEN st
                   ELSE [mid |-> m2.MessageID,
                         mids |-> IF minted THEN [st.mids EXCEPT ![c] = @ + 1] ELSE st.mids,
                         inbox |-> IF sent
                                   THEN [st.inbox EXCEPT ![lid] =
                                           Deliver(@, PublishPacket(m2, c, seq, m.MessageID))]
                                   ELSE st.inbox,
                         scount |-> Counted(st.scount, sent),
                         targets |-> st.targets \cup {lid},
                         dropped |-> IF sent THEN st.dropped
                                     ELSE st.dropped \cup {[to |-> lid, Qos |-> m2.Qos]}]
        IN  FanOut(c, m, seq, Tail(order), sendOk, st2)

publish(c, isForwarded, messageID, topic, payload, getOk, routeOk, order, sendOk) ==
    LET contract == Contract(c)
        m == NewMessage(messageID, topic, payload)
        seq == meter.InMsgs + 1
        st0 == [mid |-> messageID, mids |-> nextMid, inbox |-> inbox,
                scount |-> 0, targets |-> {}, dropped |-> dropped]
        st == FanOut(c, m, seq, order, sendOk, st0)
        forwards == Forwards(isForwarded, contract)
        err == IF forwards THEN (IF routeOk THEN "nil" ELSE "clusterError")
               ELSE IF getOk THEN "nil" ELSE "storeError"
    IN  /\ IsOpen(c) /\ ~Busy(c)
        /\ meter.InMsgs < budget.pubs
        /\ meter' = [meter EXCEPT !.InMsgs = @ + 1, !.OutMsgs = @ + st.scount]
        /\ nextMid' = st.mids
        /\ inbox' = Observe("inbox", st.inbox, inbox)
        /\ seen' = Observe("forwarding", See(isForwarded, contract, forwards), seen)
        /\ lastPub' = Observe("fanout",
                              [c |-> c, topic |-> m.Topic, out |-> st.scount,
                               targets |-> st.targets, err |-> err,
                               failed |-> Failed(getOk, forwards, routeOk)],
                              lastPub)
        /\ afterUnsub' = Observe("unsub", AfterUnsub(m.Topic, st.targets), afterUnsub)
        /\ UNCHANGED << conn, subs, cache, store, nextSubID, closing, faulty,
                        budget, watch, pending, subsBy, lastUnsub >>
        /\ dropped' = Observe("drops", st.dropped, dropped)
        /\ UNCHANGED << fanout, stalled, calc, session >>

\* publish does not read topic.Key, so one key stands for all; the n-th
\* publish call carries the n-th payload.
Publish ==
    \E c \in Conns, f \in BOOLEAN, id \in PublishIDs,
       t \in { x \in ParsedTopics : x.Key = "k1" } :
        \E getOk \in CallOutcomes, routeOk \in CallOutcomes :
            LET conns == IF getOk THEN StoreGet(store, Contract(c), t.Topic) ELSE {}
            IN  \E order \in Orderings(conns), sendOk \in SUBSET { r.id : r \in conns } :
                    publish(c, f, id, t, PayloadOf(meter.InMsgs + 1), getOk, routeOk,
                            order, sendOk)

\* ------------------------------------------------------------ publish, step by step
\* A select whose timer never fires.
OfferNeverTimesOut == FALSE

\* case <-time.After(time.Microsecond * 50): the select in SendMessage gives up.
OfferTimesOut == TRUE

\* The ways c.pub <- &msg to the subscriber can end: TRUE when its writer
\* takes the packet, FALSE when the timer fires.
SendOutcomes(lid) ==
    (IF lid \in stalled THEN {} ELSE {TRUE}) \cup (IF OfferTimesOut THEN {FALSE} ELSE {})

\* publish up to the loop: the meter, Subscription.Get and the message m.
publishBegin(c, isForwarded, messageID, topic, payload, getOk, order) ==
    /\ IsOpen(c)
    /\ fanout = NoFanOut
    /\ meter.InMsgs < budget.pubs
    /\ meter' = [meter EXCEPT !.InMsgs = @ + 1]
    /\ fanout' = [c |-> c, isForwarded |-> isForwarded,
                  m |-> NewMessage(messageID, topic, payload),
                  seq |-> meter.InMsgs + 1, rest |-> order, getOk |-> getOk,
                  st |-> [mid |-> messageID, scount |-> 0, targets |-> {}]]
    /\ UNCHANGED << conn, subs, cache, store, nextSubID, nextMid, inbox, closing,
                    faulty, budget, watch, pending, subsBy, lastUnsub, seen, afterUnsub,
                    lastPub, stalled, dropped, calc, session >>

PublishBegin ==
    \E c \in Conns, f \in BOOLEAN, id \in PublishIDs,
       t \in { x \in ParsedTopics : x.Key = "k1" } :
        \E getOk \in CallOutcomes :
            LET conns == IF getOk THEN StoreGet(store, Contract(c), t.Topic) ELSE {}
            IN  \E order \in Orderings(conns) :
                    publishBegin(c, f, id, t, PayloadOf(meter.InMsgs + 1), getOk, order)

\* One turn of the loop over conns.
PublishSend ==
    /\ fanout # NoFanOut
    /\ fanout.rest # << >>
    /\ LET r == Head(fanout.rest)
           lid == Uint32(SubSeq(r.payload, 2, 5))
       IN  \E sent \in (IF ConnCacheGet(cache, lid) THEN SendOutcomes(lid) ELSE {FALSE}) :
               LET st0 == [mid |-> fanout.st.mid, mids |-> nextMid, inbox |-> inbox,
                           scount |-> fanout.st.scount, targets |-> fanout.st.targets,
                           dropped |-> dropped]
                   st == FanOut(fanout.c, fanout.m, fanout.seq, << r >>,
                                IF sent THEN {r.id} ELSE {}, st0)
               IN  /\ nextMid' = st.mids
                   /\ inbox' = Observe("inbox", st.inbox, inbox)
                   /\ dropped' = Observe("drops", st.dropped, dropped)
                   /\ fanout' = [fanout EXCEPT
                                   !.rest = Tail(@),
                                   !.st = [mid |-> st.mid, scount |-> st.scount,
                                           targets |-> st.targets]]
    /\ UNCHANGED << conn, subs, cache, store, nextSubID, meter, closing, faulty, budget,
                    watch, pending, subsBy, lastUnsub, seen, afterUnsub, lastPub, stalled,
                    calc, session >>

\* publish after the loop: the meter, routeToContract and the return.
PublishEnd ==
    /\ fanout # NoFanOut
    /\ fanout.rest = << >>
    /\ \E routeOk \in CallOutcomes :
           LET contract == Contract(fanout.c)
               forwards == Forwards(fanout.isForwarded, contract)
               err == IF forwards THEN (IF routeOk THEN "nil" ELSE "clusterError")
                      ELSE IF fanout.getOk THEN "nil" ELSE "storeError"
           IN  /\ meter' = [meter EXCEPT !.OutMsgs = @ + fanout.st.scount]
               /\ seen' = Observe("forwarding", See(fanout.isForwarded, contract, forwards),
                                  seen)
               /\ lastPub' = Observe("fanout",
                                     [c |-> fanout.c, topic |-> fanout.m.Topic,
                                      out |-> fanout.st.scount,
                                      targets |-> fanout.st.targets, err |-> err,
                                      failed |-> Failed(fanout.getOk, forwards, routeOk)],
                                     lastPub)
               /\ afterUnsub' = Observe("unsub",
                                        AfterUnsub(fanout.m.Topic, fanout.st.targets),
                                        afterUnsub)
    /\ fanout' = NoFanOut
    /\ UNCHANGED << conn, subs, cache, store, nextSubID, nextMid, inbox, closing, faulty,
                    budget, watch, pending, subsBy, lastUnsub, stalled, dropped, calc,
                    session >>

\* ------------------------------------------------------------ close
\* A close that deletes no subscription.
CloseKeepsSubscriptions(clnode) == FALSE

\* Close deletes the subscriptions of a connection that is no cluster session.
CloseUnsubscribes(clnode) == ~clnode

\* A close that leaves the cache entry.
CloseKeepsEntry(ch, c) == ch

\* Globals.ConnCache.Delete(c.connid)
CloseCache(ch, c) == ConnCacheDelete(ch, c)

RECURSIVE DeleteAll(_, _, _)
DeleteAll(st, contract, stats) ==
    IF stats = {} THEN st
    ELSE LET s == CHOOSE x \in stats : TRUE
         IN  DeleteAll(StoreDelete(st, contract, s.ID, s.Topic), contract, stats \ {s})

close(c, failing) ==
    LET all == StatsAll(subs[c])
        kept == { s \in all : s.ID \in failing }
    IN  /\ conn[c].st \in {"open", "closed"}
        /\ "closing" \in watch => closing[c].socketCloses < MaxCloseCalls
        /\ IF conn[c].clnode
           THEN \* closeC is nil: close(c.closeC) panics, and so does the
                \* deferred c.socket.Close() on the nil socket.
                /\ closing' = Observe("closing", [closing EXCEPT ![c].panicked = TRUE],
                                      closing)
                /\ UNCHANGED << conn, cache, store, meter, subsBy >>
           ELSE IF conn[c].st = "closed"
           THEN \* closeC is closed already: close(c.closeC) panics, the deferred
                \* c.socket.Close() runs.
                /\ closing' = Observe("closing",
                                      [closing EXCEPT ![c].panicked = TRUE,
                                                      ![c].socketCloses = @ + 1],
                                      closing)
                /\ UNCHANGED << conn, cache, store, meter, subsBy >>
           ELSE /\ conn' = [conn EXCEPT ![c].st = "closed"]
                /\ IF CloseUnsubscribes(conn[c].clnode)
                   THEN /\ store' = DeleteAll(store, Contract(c), all \ kept)
                        /\ meter' = [meter EXCEPT
                                       !.Subscriptions = @ - Cardinality(all),
                                       !.Connections = @ - 1]
                        /\ subsBy' = [subsBy EXCEPT ![c] = @ - Cardinality(all)]
                   ELSE /\ meter' = [meter EXCEPT !.Connections = @ - 1]
                        /\ UNCHANGED << store, subsBy >>
                /\ cache' = CloseCache(cache, c)
                /\ closing' = Observe("closing",
                                      [closing EXCEPT ![c].socketCloses = @ + 1], closing)
        /\ UNCHANGED << subs, nextSubID, nextMid, inbox, faulty, budget, watch, pending,
                        lastUnsub, seen, afterUnsub, lastPub >>
        /\ UNCHANGED << fanout, stalled, dropped, calc, session >>

Close ==
    \E c \in Conns :
        \E failing \in (IF faulty THEN SUBSET { s.ID : s \in StatsAll(subs[c]) } ELSE { {} }) :
            close(c, failing)

\* ------------------------------------------------------------ specification
Next ==
    \/ NewConn
    \/ NewRpcConn
    \/ Subscribe
    \/ Unsubscribe
    \/ Publish
    \/ Close

Spec == Init /\ [][Next]_vars

\* The same program with the uses of the forwarded flag kept.
SpecForwarding == InitWith({"forwarding"}, MaxSubIDs, MaxPublish) /\ [][Next]_vars

\* The same program with the latest publish call kept.
SpecFanOut == InitWith({"fanout"}, MaxSubIDs, MaxPublish) /\ [][Next]_vars

\* The same program with the count of unmatched subscribes kept.
SpecPending == InitWith({"pending"}, MaxSubIDs, MaxPublish) /\ [][Next]_vars

\* The same program with the packets the subscribers received kept.
SpecInbox == InitWith({"inbox"}, MaxSubIDs, MaxPublish) /\ [][Next]_vars

\* The same program with the inboxes kept, for runs of several publishes.
SpecOrder == InitWith({"inbox"}, OrderSubIDs, OrderPublish) /\ [][Next]_vars

\* The same program with the outcomes of the close calls kept.
SpecClosing == InitWith({"closing"}, MaxSubIDs, MaxPublish) /\ [][Next]_vars

\* The same program with the latest unsubscribe and what followed it kept.
SpecUnsub == InitWith({"unsub"}, MaxSubIDs, MaxPublish) /\ [][Next]_vars

\* The same program with the sends that timed out kept.
SpecDrops == InitWith({"drops"}, MaxSubIDs, MaxPublish) /\ [][Next]_vars

\* The same program with store and cluster calls that may return an error,
\* the latest publish call kept.
InitFaulty ==
    /\ InitCommon
    /\ calc = NoCalc
    /\ faulty = TRUE
    /\ budget = [ids |-> FaultySubIDs, pubs |-> FaultyPublish, keys |-> Keys]
    /\ watch = {"fanout"}
    /\ stalled = {}

SpecFaulty == InitFaulty /\ [][Next]_vars

\* The program with publish taken one turn of its loop at a time. The
\* publisher's task is scheduled again and again, and a timer that was set
\* fires.
NextSteps ==
    \/ NewConn
    \/ NewRpcConn
    \/ Subscribe
    \/ Unsubscribe
    \/ PublishBegin
    \/ PublishSend
    \/ PublishEnd
    \/ Close

\* Either every writer takes the packets offered to it or none ever does.
InitSteps ==
    /\ InitCommon
    /\ calc = NoCalc
    /\ faulty = FALSE
    /\ budget = [ids |-> StepsSubIDs, pubs |-> StepsPublish, keys |-> {"k1"}]
    /\ watch = {}
    /\ stalled \in { {}, Conns }

SpecSteps ==
    /\ InitSteps
    /\ [][NextSteps]_vars
    /\ WF_vars(PublishSend)
    /\ WF_vars(PublishEnd)

\* ------------------------------------------------------------ close, step by step
\* The variables close and SendRawBytes leave alone at every step.
teardownRest ==
    << subs, nextSubID, nextMid, inbox, closing, faulty, budget, watch, pending, lastUnsub,
       seen, afterUnsub, lastPub, fanout, stalled, dropped, calc >>

Done(c, step) == [session EXCEPT ![c].done = Append(@, step)]

\* case <-c.closeC: ready once the channel is closed.
SeesClose(closeC) == closeC = "closed"

\* c.closeW.Add(1), the deferred Done registered.
SendAdd(c) ==
    /\ conn[c].st # "none"
    /\ ~conn[c].clnode
    /\ session[c].sender = "idle"
    /\ session' = [session EXCEPT ![c].closeW = @ + 1, ![c].sender = "added"]
    /\ UNCHANGED << conn, cache, store, meter, subsBy >>
    /\ UNCHANGED teardownRest

\* The select: a closed closeC or a timer that has fired already makes the
\* call return false, and the deferred Done runs; otherwise the default
\* case is taken.
SendSelect(c, timerFired) ==
    /\ session[c].sender = "added"
    /\ IF SeesClose(session[c].closeC) \/ timerFired
       THEN session' = [session EXCEPT ![c].closeW = @ - 1, ![c].sender = "idle"]
       ELSE session' = [session EXCEPT ![c].sender = "writing"]
    /\ UNCHANGED << conn, cache, store, meter, subsBy >>
    /\ UNCHANGED teardownRest

\* c.socket.Write(buf)
SendWrite(c) ==
    /\ session[c].sender = "writing"
    /\ session' = [session EXCEPT
                     ![c].sender = "written",
                     ![c].lateWrite = @ \/ session[c].socket = "closed"]
    /\ UNCHANGED << conn, cache, store, meter, subsBy >>
    /\ UNCHANGED teardownRest

\* return true, the deferred c.closeW.Done() runs.
SendReturn(c) ==
    /\ session[c].sender = "written"
    /\ session' = [session EXCEPT ![c].closeW = @ - 1, ![c].sender = "idle"]
    /\ UNCHANGED << conn, cache, store, meter, subsBy >>
    /\ UNCHANGED teardownRest

\* recover() outside a deferred call does nothing; defer c.socket.Close();
\* close(c.closeC). A cluster session has no closeC: the close of the nil
\* channel panics and the call ends there.
CloseSignal(c) ==
    /\ conn[c].st = "open"
    /\ session[c].done = <<>>
    /\ IF conn[c].clnode
       THEN session' = Done(c, "panic")
       ELSE session' = [Done(c, "closeC") EXCEPT ![c].closeC = "closed"]
    /\ UNCHANGED << conn, cache, store, meter, subsBy >>
    /\ UNCHANGED teardownRest

\* A close call on a connection whose closeC is closed already: the close of
\* the closed channel panics, and the deferred c.socket.Close() runs as the
\* panic unwinds.
CloseAgain(c) ==
    /\ conn[c].st \in {"open", "closed"}
    /\ ~conn[c].clnode
    /\ session[c].closeC = "closed"
    /\ session[c].socket = "open"
    /\ session' = [session EXCEPT ![c].socket = "closed"]
    /\ UNCHANGED << conn, cache, store, meter, subsBy >>
    /\ UNCHANGED teardownRest

\* c.closeW.Wait() returns when the counter is zero.
CloseWait(c) ==
    /\ session[c].done = << "closeC" >>
    /\ session[c].closeW = 0
    /\ session' = Done(c, "wait")
    /\ UNCHANGED << conn, cache, store, meter, subsBy >>
    /\ UNCHANGED teardownRest

\* The loop over c.subs.All() of a session that is no cluster session.
CloseSubscriptions(c) ==
    LET all == StatsAll(subs[c])
    IN  /\ session[c].done = << "closeC", "wait" >>
        /\ session' = Done(c, "unsubscribe")
        /\ IF CloseUnsubscribes(conn[c].clnode)
           THEN /\ store' = DeleteAll(store, Contract(c), all)
                /\ meter' = [meter EXCEPT !.Subscriptions = @ - Cardinality(all)]
                /\ subsBy' = [subsBy EXCEPT ![c] = @ - Cardinality(all)]
           ELSE UNCHANGED << store, meter, subsBy >>
        /\ UNCHANGED << conn, cache >>
        /\ UNCHANGED teardownRest

\* Globals.ConnCache.Delete(c.connid)
CloseUncache(c) ==
    /\ session[c].done = << "closeC", "wait", "unsubscribe" >>
    /\ session' = Done(c, "cache")
    /\ cache' = CloseCache(cache, c)
    /\ UNCHANGED << conn, store, meter, subsBy >>
    /\ UNCHANGED teardownRest

\* Globals.Cluster.connGone(c)
CloseGone(c) ==
    /\ session[c].done = << "closeC", "wait", "unsubscribe", "cache" >>
    /\ session' = Done(c, "connGone")
    /\ UNCHANGED << conn, cache, store, meter, subsBy >>
    /\ UNCHANGED teardownRest

\* close(c.send); c.service.meter.Connections.Dec(1)
CloseMeter(c) ==
    /\ session[c].done = << "closeC", "wait", "unsubscribe", "cache", "connGone" >>
    /\ session' = Done(c, "meter")
    /\ meter' = [meter EXCEPT !.Connections = @ - 1]
    /\ UNCHANGED << conn, cache, store, subsBy >>
    /\ UNCHANGED teardownRest

\* return nil: the deferred c.socket.Close() runs.
CloseSocket(c) ==
    /\ session[c].done = << "closeC", "wait", "unsubscribe", "cache", "connGone", "meter" >>
    /\ session' = [Done(c, "socket") EXCEPT ![c].socket = "closed"]
    /\ conn' = [conn EXCEPT ![c].st = "closed"]
    /\ UNCHANGED << cache, store, meter, subsBy >>
    /\ UNCHANGED teardownRest

\* The program with close and SendRawBytes taken one statement at a time.
NextTeardown ==
    \/ NewConn
    \/ NewRpcConn
    \/ Subscribe
    \/ \E c \in Conns : SendAdd(c)
    \/ \E c \in Conns, timerFired \in BOOLEAN : SendSelect(c, timerFired)
    \/ \E c \in Conns : SendWrite(c)
    \/ \E c \in Conns : SendReturn(c)
    \/ \E c \in Conns : CloseSignal(c)
    \/ \E c \in Conns : CloseAgain(c)
    \/ \E c \in Conns : CloseWait(c)
    \/ \E c \in Conns : CloseSubscriptions(c)
    \/ \E c \in Conns : CloseUncache(c)
    \/ \E c \in Conns : CloseGone(c)
    \/ \E c \in Conns : CloseMeter(c)
    \/ \E c \in Conns : CloseSocket(c)

InitTeardown ==
    /\ InitCommon
    /\ calc = NoCalc
    /\ faulty = FALSE
    /\ budget = [ids |-> TeardownSubIDs, pubs |-> 0, keys |-> {"k1"}]
    /\ watch = {}
    /\ stalled = {}

SpecTeardown == InitTeardown /\ [][NextTeardown]_vars

\* ------------------------------------------------------------ gRPC framing
\* The publish family of packets. A packet carries a 16-bit message id and a
\* QoS; a PUBLISH also a topic, a payload and the forwarded flag.
PublishFamily == { "PUBLISH", "PUBACK", "PUBREC", "PUBREL", "PUBCOMP" }

CodecIDs == { 0, 1, Word16 - 1 }

CodecQos == 0..2

CodecTopics == { "", "k1/a" }

CodecPayloads == { "", "hello" }

Packets ==
    [Kind : {"PUBLISH"}, MessageID : CodecIDs, Qos : CodecQos, Topic : CodecTopics,
     Payload : CodecPayloads, IsForwarded : BOOLEAN]
    \cup [Kind : PublishFamily \ {"PUBLISH"}, MessageID : CodecIDs, Qos : CodecQos]

\* Go's integer conversions. A 16-bit or 8-bit value widened to 32 bits keeps
\* its value; a narrowing keeps the low bits.
uint32(v) == v

uint16(v) == v % Word16

uint8(v) == v % 256

\* proto3 on the wire: the fields of a message in field order, a field holding
\* its zero value left out. IsForwarded is a field no message declares.
FieldOrder == << "MessageID", "Topic", "Payload", "Qos", "IsForwarded" >>

ZeroOf(field) ==
    CASE field \in {"Topic", "Payload"} -> ""
      [] field = "IsForwarded" -> FALSE
      [] OTHER -> 0

Marshal(m) ==
    LET declared == SelectSeq(FieldOrder, LAMBDA f : f \in DOMAIN m)
        written == SelectSeq(declared, LAMBDA f : m[f] # ZeroOf(f))
    IN  [i \in 1..Len(written) |-> [field |-> written[i], value |-> m[written[i]]]]

\* A field absent from the data keeps its zero value, a field the message
\* does not declare is skipped, the last occurrence of a field wins.
Unmarshal(data, fields) ==
    [f \in fields |->
        LET at == { i \in 1..Len(data) : data[i].field = f }
        IN  IF at = {} THEN ZeroOf(f)
            ELSE data[CHOOSE i \in at : \A j \in at : j <= i].value]

\* FixedHeader.pack followed by the write of the body.
Frame(messageType, pkt) ==
    [header |-> [MessageType |-> messageType, RemainingLength |-> Len(pkt)],
     body |-> pkt]

\* A PUBLISH message that carries the flag as one more field.
pbxPublishWithFlag(p) ==
    [MessageID |-> uint32(p.MessageID), Topic |-> p.Topic, Payload |-> p.Payload,
     Qos |-> uint32(p.Qos), IsForwarded |-> p.IsForwarded]

pbxPublish(p) ==
    [MessageID |-> uint32(p.MessageID), Topic |-> p.Topic, Payload |-> p.Payload,
     Qos |-> uint32(p.Qos)]

encodePublish(p) == Frame("PUBLISH", Marshal(pbxPublish(p)))

encodePuback(p) == Frame("PUBACK", Marshal([MessageID |-> uint32(p.MessageID)]))

encodePubrec(p) ==
    Frame("PUBREC", Marshal([MessageID |-> uint32(p.MessageID), Qos |-> uint32(p.Qos)]))

encodePubrel(p) ==
    Frame("PUBREL", Marshal([MessageID |-> uint32(p.MessageID), Qos |-> uint32(p.Qos)]))

encodePubcomp(p) == Frame("PUBCOMP", Marshal([MessageID |-> uint32(p.MessageID)]))

\* The fields unpackPublish does not set keep Go's zero value.
unpackPublish(data) ==
    LET pkt == Unmarshal(data, {"MessageID", "Topic", "Payload", "Qos"})
    IN  [Kind |-> "PUBLISH", MessageID |-> uint16(pkt.MessageID), Qos |-> uint8(pkt.Qos),
         Topic |-> pkt.Topic, Payload |-> pkt.Payload, IsForwarded |-> FALSE]

unpackPuback(data) ==
    LET pkt == Unmarshal(data, {"MessageID"})
    IN  [Kind |-> "PUBACK", MessageID |-> uint16(pkt.MessageID), Qos |-> 0]

unpackPubrec(data) ==
    LET pkt == Unmarshal(data, {"MessageID", "Qos"})
    IN  [Kind |-> "PUBREC", MessageID |-> uint16(pkt.MessageID), Qos |-> uint8(pkt.Qos)]

unpackPubrel(data) ==
    LET pkt == Unmarshal(data, {"MessageID", "Qos"})
    IN  [Kind |-> "PUBREL", MessageID |-> uint16(pkt.MessageID), Qos |-> uint8(pkt.Qos)]

unpackPubcomp(data) ==
    LET pkt == Unmarshal(data, {"MessageID"})
    IN  [Kind |-> "PUBCOMP", MessageID |-> uint16(pkt.MessageID), Qos |-> 0]

encodeOf(p) ==
    CASE p.Kind = "PUBLISH" -> encodePublish(p)
      [] p.Kind = "PUBACK" -> encodePuback(p)
      [] p.Kind = "PUBREC" -> encodePubrec(p)
      [] p.Kind = "PUBREL" -> encodePubrel(p)
      [] p.Kind = "PUBCOMP" -> encodePubcomp(p)

unpackOf(messageType, data) ==
    CASE messageType = "PUBLISH" -> unpackPublish(data)
      [] messageType = "PUBACK" -> unpackPuback(data)
      [] messageType = "PUBREC" -> unpackPubrec(data)
      [] messageType = "PUBREL" -> unpackPubrel(data)
      [] messageType = "PUBCOMP" -> unpackPubcomp(data)

\* Bodies a client can put on the wire itself: a PUBLISH that carries a field
\* named as the flag, alone, twice, or among the declared fields.
CraftedBodies ==
    LET flag(b) == [field |-> "IsForwarded", value |-> b]
        id == [field |-> "MessageID", value |-> 1]
        topic == [field |-> "Topic", value |-> "k1/a"]
    IN  { << flag(TRUE) >>, << id, flag(TRUE) >>, << flag(TRUE), topic >>,
          << id, topic, flag(TRUE), flag(FALSE) >> }

NoPacket == [Kind |-> "NONE"]

\* A packet to encode, or a frame that arrived from a client.
InitCodec ==
    /\ InitCommon
    /\ faulty = FALSE
    /\ budget = [ids |-> 0, pubs |-> 0, keys |-> {}]
    /\ watch = {}
    /\ stalled = {}
    /\ \/ \E p \in Packets :
            calc = [stage |-> "packet", packet |-> p, msg |-> Frame("NONE", <<>>),
                    back |-> NoPacket]
       \/ \E body \in CraftedBodies :
            calc = [stage |-> "encoded", packet |-> NoPacket,
                    msg |-> Frame("PUBLISH", body), back |-> NoPacket]

Encode ==
    /\ calc.stage = "packet"
    /\ calc' = [calc EXCEPT !.stage = "encoded", !.msg = encodeOf(calc.packet)]
    /\ UNCHANGED brokerVars

Unpack ==
    /\ calc.stage = "encoded"
    /\ calc' = [calc EXCEPT !.stage = "decoded",
                            !.back = unpackOf(calc.msg.header.MessageType, calc.msg.body)]
    /\ UNCHANGED brokerVars

NextCodec ==
    \/ Encode
    \/ Unpack

SpecCodec == InitCodec /\ [][NextCodec]_vars

\* ------------------------------------------------------------ topic parser
TopicInvalid == 0

TopicKeySeparator == "/"

MaxText == 4

\* The bytes a key text is made of: a letter of the key, a letter of the
\* topic, the key separator and the options mark.
TextBytes == { "k", "t", TopicKeySeparator, "?" }

Texts == UNION { [1..n -> TextBytes] : n \in 0..MaxText }

\* bytes.FieldsFunc: the maximal runs of bytes that are not separators; an
\* empty run is no field.
RECURSIVE FieldsFunc(_, _)
FieldsFunc(text, sep) ==
    IF text = <<>> THEN <<>>
    ELSE IF Head(text) = sep THEN FieldsFunc(Tail(text), sep)
    ELSE LET stops == { i \in 1..Len(text) : text[i] = sep }
             end == IF stops = {} THEN Len(text)
                    ELSE (CHOOSE i \in stops : \A j \in stops : i <= j) - 1
         IN  << SubSeq(text, 1, end) >> \o FieldsFunc(SubSeq(text, end + 1, Len(text)), sep)

\* new(Topic): every field at its zero value, TopicType 0 being TopicInvalid.
NewTopic == [Key |-> <<>>, Topic |-> <<>>, TopicOptions |-> <<>>, TopicType |-> 0]

ParseKey(text) ==
    LET parts == FieldsFunc(text, TopicKeySeparator)
    IN  IF Len(parts) < 2 THEN [NewTopic EXCEPT !.TopicType = TopicInvalid]
        ELSE LET rest == FieldsFunc(parts[2], "?")
                 l == Len(rest)
             IN  IF l < 1 THEN [NewTopic EXCEPT !.Key = parts[1], !.TopicType = TopicInvalid]
                 ELSE [NewTopic EXCEPT !.Key = parts[1],
                                       !.TopicOptions = IF l > 1 THEN rest[2] ELSE @,
                                       !.Topic = rest[1]]

InitParse ==
    /\ InitCommon
    /\ faulty = FALSE
    /\ budget = [ids |-> 0, pubs |-> 0, keys |-> {}]
    /\ watch = {}
    /\ stalled = {}
    /\ \E text \in Texts : calc = [stage |-> "text", text |-> text, topic |-> NewTopic]

Parse ==
    /\ calc.stage = "text"
    /\ calc' = [calc EXCEPT !.stage = "parsed", !.topic = ParseKey(calc.text)]
    /\ UNCHANGED brokerVars

SpecParse == InitParse /\ [][Parse]_vars

\* ------------------------------------------------------------ wildcard topics
TopicStatic == 1

TopicWildcard == 2

TopicAnySeparator == "*"

TopicSeparator == "."

TopicChildrenAllSeparator == << ".", ".", "." >>

ChildrenAllDepth == 23

MaxTopic == 7

\* The bytes a topic is made of: a letter, the wildcard and the separator.
TopicBytes == { "a", TopicAnySeparator, TopicSeparator }

Topics == UNION { [1..n -> TopicBytes] : n \in 0..MaxTopic }

HasSuffix(text, suffix) ==
    /\ Len(suffix) <= Len(text)
    /\ SubSeq(text, Len(text) - Len(suffix) + 1, Len(text)) = suffix

\* bytes.TrimRight: every trailing byte that is in the cutset goes.
RECURSIVE TrimRight(_, _)
TrimRight(text, cutset) ==
    IF text # <<>> /\ text[Len(text)] \in cutset
    THEN TrimRight(SubSeq(text, 1, Len(text) - 1), cutset)
    ELSE text

\* hash.WithSalt: the routing key of a segment under a contract.
WithSalt(p, contract) == << p, contract >>

\* The query of the part that stands for every topic.
wildcard == << << TopicAnySeparator >>, 0 >>

\* A Topic as ParseKey leaves it, with the parts and the depth Parse fills.
KeyedTopic(text) ==
    [Key |-> << "k" >>, Topic |-> text, TopicOptions |-> <<>>, TopicType |-> TopicInvalid,
     Parts |-> <<>>, Depth |-> 0]

\* One turn of the loop over the segments; idx counts from 0 as in the
\* source, Parts from 1.
WildcardTurn(st, idx, p, contract) ==
    IF HasSuffix(p, << TopicAnySeparator >>)
    THEN [st EXCEPT !.TopicType = TopicWildcard,
                    !.Parts = IF idx = 0
                              THEN Append(@, [Query |-> WithSalt(p, contract), Wildchars |-> 0])
                              ELSE @,
                    !.wildchars = (@ + 1) % 256,
                    !.wildcharcount = @ + 1,
                    !.depth = (@ + 1) % 256]
    ELSE LET appended == Append(st.Parts, [Query |-> WithSalt(p, contract), Wildchars |-> 0])
             at == IF idx - st.wildcharcount - 1 >= 0 THEN idx - st.wildcharcount - 1 ELSE 0
         IN  [st EXCEPT !.Parts = IF st.wildchars > 0
                                  THEN [appended EXCEPT ![at + 1].Wildchars = st.wildchars]
                                  ELSE appended,
                        !.wildchars = 0,
                        !.depth = (@ + 1) % 256]

RECURSIVE WildcardLoop(_, _, _, _)
WildcardLoop(st, idx, parts, contract) ==
    IF idx >= Len(parts) THEN st
    ELSE WildcardLoop(WildcardTurn(st, idx, parts[idx + 1], contract), idx + 1, parts, contract)

parseWildcardTopic(contract, topic) ==
    LET children == HasSuffix(topic.Topic, TopicChildrenAllSeparator)
        trimmed == IF children THEN TrimRight(topic.Topic, { TopicSeparator }) ELSE topic.Topic
        t0 == IF children
              THEN [topic EXCEPT !.Topic = trimmed, !.TopicType = TopicWildcard,
                                 !.Depth = ChildrenAllDepth]
              ELSE topic
    IN  IF children /\ Len(trimmed) = 0
        THEN [t0 EXCEPT !.Parts = << [Query |-> wildcard, Wildchars |-> 0] >>]
        ELSE LET parts == FieldsFunc(t0.Topic, TopicSeparator)
                 st == WildcardLoop([Parts |-> <<>>, wildchars |-> 0, wildcharcount |-> 0,
                                     depth |-> 0, TopicType |-> t0.TopicType],
                                    0, parts, contract)
                 last == Len(st.Parts)
             IN  [t0 EXCEPT !.Parts = IF st.wildchars > 0
                                      THEN [st.Parts EXCEPT ![last].Wildchars = st.wildchars]
                                      ELSE st.Parts,
                            !.Depth = (@ + st.depth) % 256,
                            !.TopicType = IF st.TopicType # TopicWildcard THEN TopicStatic
                                          ELSE st.TopicType]

InitWildcard ==
    /\ InitCommon
    /\ faulty = FALSE
    /\ budget = [ids |-> 0, pubs |-> 0, keys |-> {}]
    /\ watch = {}
    /\ stalled = {}
    /\ \E text \in Topics :
            calc = [stage |-> "topic", text |-> text, topic |-> KeyedTopic(text)]

ParseWildcard ==
    /\ calc.stage = "topic"
    /\ calc' = [calc EXCEPT !.stage = "parsed",
                            !.topic = parseWildcardTopic("own", calc.topic)]
    /\ UNCHANGED brokerVars

SpecWildcard == InitWildcard /\ [][ParseWildcard]_vars

\* ------------------------------------------------------------ message ids
\* The halves the connection ids and contracts are made of, and the message
\* ids: the ends of the 16-bit range and their neighbours.
EdgeHalves == { 0, 1, 2, Word16 - 1 }

EdgeWords == [hi : EdgeHalves, lo : EdgeHalves]

EdgeIDs == { 0, 1, 2, Word16 - 2, Word16 - 1 }

EdgeContracts == { Wide(1), [hi |-> Word16 - 1, lo |-> Word16 - 1] }

NoIDs == [mid |-> Wide(0), otherMid |-> Wide(0), back |-> 0, key |-> <<>>, otherKey |-> <<>>]

\* A connection and two message ids of packets it received.
InitIDs ==
    /\ InitCommon
    /\ faulty = FALSE
    /\ budget = [ids |-> 0, pubs |-> 0, keys |-> {}]
    /\ watch = {}
    /\ stalled = {}
    /\ \E connid \in EdgeWords, id \in EdgeIDs, other \in EdgeIDs, contract \in EdgeContracts :
            calc = [stage |-> "ids", connid |-> connid, id |-> id, other |-> other,
                    contract |-> contract, out |-> NoIDs]

MapIDs ==
    /\ calc.stage = "ids"
    /\ calc' = [calc EXCEPT
                  !.stage = "mapped",
                  !.out = [mid |-> inboundID(calc.connid, calc.id),
                           otherMid |-> inboundID(calc.connid, calc.other),
                           back |-> outboundID(calc.connid, inboundID(calc.connid, calc.id)),
                           key |-> storeInbound(calc.connid, calc.id, calc.contract),
                           otherKey |-> storeInbound(calc.connid, calc.other, calc.contract)]]
    /\ UNCHANGED brokerVars

SpecIDs == InitIDs /\ [][MapIDs]_vars

\* ------------------------------------------------------------ properties
\* The connection a store record's payload names, and its records.
RecordConn(r) == Uint32(SubSeq(r.payload, 2, 5))

RecordsOf(c) == { r \in store : RecordConn(r) = c }

RecordsOfKey(c, k) == { r \in RecordsOf(c) : r.by = k }

\* A step that is a publish call.
PublishStep == meter'.InMsgs = meter.InMsgs + 1

\* The connections in the cache that hold a stat for the topic under the
\* contract, and the (connection, key) pairs that do.
Holders(contract, topic) ==
    { c \in cache : Contract(c) = contract /\ HoldsTopic(c, topic) }

Held(contract, topic) ==
    { ck \in cache \X Keys :
        /\ Contract(ck[1]) = contract
        /\ StatsExist(subs[ck[1]], ck[2])
        /\ subs[ck[1]][ck[2]].Topic = topic }

\* C1: no subscribe, unsubscribe or publish call whose packet has the
\* forwarded flag set hands the request to routeToContract, on any connection;
\* a request a peer replayed is not forwarded again.
C1_ForwardedNeverRouted == ~seen.reforwarded

\* A replayed request reached a connection of a peer-owned contract, and a
\* request without the flag was routed.
C1_Witness == seen.replayed /\ seen.forwarded

C4_InverseEdges ==
    \A c \in Conns, k \in Keys :
        (IsOpen(c) /\ pending[c][k] > 0) => RecordsOfKey(c, k) # {}

C6_CloseIdempotent ==
    \A c \in Conns :
        ~conn[c].clnode => (~closing[c].panicked /\ closing[c].socketCloses <= 1)

C8_DeliveredPacket ==
    \A c \in Conns : \A i \in 1..Len(inbox[c]) :
        LET p == inbox[c][i]
        IN  /\ \A j \in 1..Len(p.Topic) : p.Topic[j] # "?"
            /\ p.Payload = PayloadOf(p.seq)
            /\ (p.id = 0 /\ p.Qos = 0) => p.MessageID = 0

C11_NonZeroMessageID ==
    \A c \in Conns : \A i \in 1..Len(inbox[c]) :
        inbox[c][i].Qos > 0 => inbox[c][i].MessageID # 0

\* C12: the packets of QoS above zero that one publish call without a message
\* id hands out carry minted ids of their own: no two of them, none
\* acknowledged yet, share a message id.
C12_FreshIDPerPacket ==
    \A c \in Conns, d \in Conns :
        \A i \in 1..Len(inbox[c]), j \in 1..Len(inbox[d]) :
            LET p == inbox[c][i]
                q == inbox[d][j]
            IN  (/\ << c, i >> # << d, j >>
                 /\ p.Qos > 0 /\ q.Qos > 0
                 /\ p.from = q.from /\ p.seq = q.seq
                 /\ p.id = 0)
                    => p.MessageID # q.MessageID

\* C13: a publish call that entered its loop leaves it and returns, also when
\* the subscribers it sends to never take a packet from their publish channel.
C13_PublishTerminates == (fanout # NoFanOut) ~> (fanout = NoFanOut)

\* A publish call that gave up on a stalled subscriber and has the next
\* subscriber before it.
C13_Witness ==
    /\ fanout # NoFanOut
    /\ fanout.st.scount = 1
    /\ fanout.st.targets # {}
    /\ fanout.st.targets \subseteq stalled
    /\ fanout.rest # << >>

\* C14: a send that timed out is given up for good only when the QoS of the
\* subscription is 0; with QoS 1 or 2 it is marked for retry and offered again.
C14_OnlyQosZeroDropped == \A d \in dropped : d.Qos = 0

\* C15: every subscribe without the forwarded flag on a connection whose
\* contract another node owns is handed to routeToContract, the first
\* subscribe of a key included.
C15_SubscribeForwarded == ~seen.subscribeKept

\* C16: the close of a cluster phantom (a connection made by newRpcConn)
\* completes, no call of it fails, and once it is closed the store holds no
\* subscription record naming it.
C16_PhantomCloseCompletes ==
    \A c \in Conns :
        conn[c].clnode =>
            /\ ~closing[c].panicked
            /\ conn[c].st = "closed" => RecordsOf(c) = {}

\* C17: when Subscription.Get or routeToContract returned an error during a
\* publish, the publish returns an error to its caller.
C17_PublishErrorsReturned == lastPub.failed # {} => lastPub.err # "nil"

\* C18: for the gRPC framing, unpacking the body of an encoded packet gives
\* back the packet, for each of PUBLISH, PUBACK, PUBREC, PUBREL and PUBCOMP,
\* every message id and every QoS: kind, message id, QoS, and for a PUBLISH
\* the topic and the payload are those of the packet that was encoded.
SamePacket(a, b) ==
    /\ a.Kind = b.Kind
    /\ a.MessageID = b.MessageID
    /\ a.Qos = b.Qos
    /\ a.Kind = "PUBLISH" => a.Topic = b.Topic /\ a.Payload = b.Payload

C18_RoundTrip ==
    (calc.stage = "decoded" /\ calc.packet # NoPacket) => SamePacket(calc.back, calc.packet)

\* C19: the forwarded flag never crosses the wire. The frame of a PUBLISH is
\* the frame of the same PUBLISH with the flag the other way, and a PUBLISH
\* unpacked from a frame, one this program encoded or one a client wrote, has
\* the flag unset.
C19_FlagNotOnWire ==
    /\ (calc.stage \in {"encoded", "decoded"} /\ calc.packet.Kind = "PUBLISH")
            => calc.msg = encodePublish([calc.packet EXCEPT !.IsForwarded = ~@])
    /\ (calc.stage = "decoded" /\ calc.back.Kind = "PUBLISH") => ~calc.back.IsForwarded

C19_Witness ==
    /\ calc.stage = "decoded"
    /\ calc.packet.Kind = "PUBLISH"
    /\ calc.packet.IsForwarded
    /\ ~calc.back.IsForwarded

\* C20: ParseKey leaves the topic invalid and empty for a text that splits on
\* the key separator into fewer than two parts, and for a text whose topic
\* part, the bytes between the key separator and the options mark, is empty:
\* the text of the options is not taken as the topic.
FirstAt(text, b) ==
    LET at == { i \in 1..Len(text) : text[i] = b }
    IN  IF at = {} THEN Len(text) + 1 ELSE CHOOSE i \in at : \A j \in at : i <= j

RestOf(text) == SubSeq(text, FirstAt(text, TopicKeySeparator) + 1, Len(text))

KeyPart(text) == SubSeq(text, 1, FirstAt(text, TopicKeySeparator) - 1)

TopicPart(text) == SubSeq(RestOf(text), 1, FirstAt(RestOf(text), "?") - 1)

\* A text with a key, a key separator after it, and nothing between the
\* separator and the options mark or the end.
EmptyTopicPart(text) ==
    /\ FirstAt(text, TopicKeySeparator) <= Len(text)
    /\ KeyPart(text) # <<>>
    /\ \A i \in 1..Len(KeyPart(text)) : KeyPart(text)[i] # "?"
    /\ TopicPart(text) = <<>>

C20_EmptyTopicInvalid ==
    (/\ calc.stage = "parsed"
     /\ \/ Len(FieldsFunc(calc.text, TopicKeySeparator)) < 2
        \/ EmptyTopicPart(calc.text))
        => calc.topic.TopicType = TopicInvalid /\ calc.topic.Topic = <<>>

\* C25: whatever subscribe, unsubscribe and close calls were made, and
\* whichever of their store calls failed, the subscription meter is the
\* number of subscription records the store holds.
C25_MeterCountsRecords == meter.Subscriptions = Cardinality(store)

\* C22: in a topic whose segments are names and wildcards, the first and the
\* last of them names, the part of each name carries as wildchars the number of wildcard
\* segments that stand immediately before the name: 1 for b and 0 for a in
\* a.*.b, and k after a run of k wildcards.
IsAny(p) == p = << TopicAnySeparator >>

IsName(p) == \A i \in 1..Len(p) : p[i] # TopicAnySeparator

\* The positions of the names among the segments, in order.
NamesAt(segs) == SelectSeq([i \in 1..Len(segs) |-> i], LAMBDA i : IsName(segs[i]))

\* The length of the run of wildcards that ends just before position i.
RECURSIVE RunBefore(_, _)
RunBefore(segs, i) ==
    IF i > 1 /\ IsAny(segs[i - 1]) THEN 1 + RunBefore(segs, i - 1) ELSE 0

C22_WildcharsOnFollowingPart ==
    LET segs == FieldsFunc(calc.text, TopicSeparator)
        names == NamesAt(segs)
    IN  (/\ calc.stage = "parsed"
         /\ ~HasSuffix(calc.text, TopicChildrenAllSeparator)
         /\ segs # <<>>
         /\ IsName(segs[1])
         /\ IsName(segs[Len(segs)])
         /\ \A i \in 1..Len(segs) : IsName(segs[i]) \/ IsAny(segs[i]))
            => /\ Len(calc.topic.Parts) = Len(names)
               /\ \A j \in 1..Len(names) :
                    calc.topic.Parts[j].Wildchars = RunBefore(segs, names[j])

TeardownOrder ==
    << "closeC", "wait", "unsubscribe", "cache", "connGone", "socket", "meter" >>

C21_TeardownOrder ==
    \A c \in Conns :
        ~conn[c].clnode =>
            /\ Len(session[c].done) <= Len(TeardownOrder)
            /\ session[c].done = SubSeq(TeardownOrder, 1, Len(session[c].done))

\* C24: whatever the interleaving of SendRawBytes calls and close on a
\* connection with a socket, no SendRawBytes writes to the socket after close
\* has closed it.
C24_NoWriteAfterSocketClose == \A c \in Conns : ~session[c].lateWrite

====
